---- MODULE Spec2Model ----
(***************************************************************************)
(* Model of update-orders.py: the credential cache (get_creds), the        *)
(* marketplace client (get_my_orders, get_orders_for_item,                 *)
(* update_my_order) and the refresh loop (main).                           *)
(*                                                                         *)
(* Two specifications:                                                     *)
(*   Spec      the process: get_creds, then the refresh loop, against a    *)
(*             marketplace server whose orders only this process changes;  *)
(*             the process may be interrupted, may abort on a fatal error  *)
(*             and may be launched again (the cache file persists).        *)
(*   SpecClient  get_my_orders and get_orders_for_item applied to bounded   *)
(*             responses.                                                  *)
(***************************************************************************)
EXTENDS Integers, Sequences, FiniteSets, TLC

VARIABLES
    file,        \* cached_credentials.json: [exists, json, pairs]
    file0,       \* the file as it was when the running process started
    pc,          \* position of the process
    run,         \* number of the running process (1 = first launch)
    creds,       \* <<>> or <<Credentials>>: main's local creds
    signins,     \* sign-in requests sent by the running process
    resp,        \* <<>> or <<the sign-in response>> of the running process
    minted,      \* <<>> or <<Credentials>> written to the file by the last successful sign-in
    server,      \* marketplace state of the user: [sell_orders, buy_orders]
    payload,     \* payload of the last 'my orders' response
    my_orders,   \* main's local my_orders
    idx,         \* position of the for loop in my_orders (1-based)
    passes,      \* get_my_orders requests sent by the running process
    attempts,    \* order ids update_my_order was called for in the current pass
    sent,        \* <<>> or <<[id, contents]>>: the last PUT of the running process
    server0,     \* the server as it was before the first launch
    last_request, \* last request of the running process: none, signin, list, update
    prev_request, \* the request before it
    last_status, \* HTTP status of the last request (0: none)
    slept,       \* seconds slept since the last request
    gap,         \* seconds slept between prev_request and last_request
    item_orders, \* payload["orders"] of an orders-for-item response
    item_result  \* <<>> or <<[buy, sell]>>: what get_orders_for_item returned

credVars == <<file, file0, creds, signins, resp, minted>>
loopVars == <<server, payload, my_orders, idx, passes, attempts, sent>>
histVars == <<server0, last_request, prev_request, last_status, slept, gap>>
mainVars == <<pc, run, credVars, loopVars, histVars>>
itemVars == <<item_orders, item_result>>
vars == <<mainVars, itemVars>>

-----------------------------------------------------------------------------
(* Bounds *)

MaxSell == 1      \* sell orders the user has on the server
MaxBuy == 1       \* buy orders the user has on the server
MaxPasses == 2    \* passes of the refresh loop per process
MaxRuns == 2      \* launches of the process
MaxListed == 2    \* entries of each list of a 'my orders' response (SpecClient)
MaxItemOrders == 3 \* entries of an orders-for-item response (SpecClient)

(* Program constants *)

SLEEP_SECONDS == 5

-----------------------------------------------------------------------------
(* Values *)

Nicknames == {"alice", "bob"}
Tokens == {"JWT t1", "JWT t2"}
SignInStatusCodes == {200, 401, 500}
StatusCodes == {200, 500}

\* requests.Response.raise_for_status raises HTTPError for 4xx and 5xx.
raise_for_status(status) == 400 <= status /\ status < 600

Credentials(nickname, auth_token) ==
    [nickname |-> nickname, auth_token |-> auth_token]

\* Credentials.__post_init__: the derived header set.
request_headers(c) ==
    [ContentType |-> "application/json; utf-8",
     Accept |-> "application/json",
     auth_type |-> "header",
     platform |-> "pc",
     language |-> "en",
     Authorization |-> c.auth_token]

-----------------------------------------------------------------------------
(* The credentials cache file.  A JSON object is the sequence of its        *)
(* <<key, value>> members in document order; a text that is no JSON object  *)
(* has json = FALSE.                                                        *)

NoFile == [exists |-> FALSE, json |-> FALSE, pairs |-> <<>>]
FileWith(text) == [exists |-> TRUE, json |-> text.json, pairs |-> text.pairs]

\* Mutant: vars(creds) in place of dataclasses.asdict(creds).
asdict_vars(c) ==
    << <<"nickname", c.nickname>>, <<"auth_token", c.auth_token>>,
       <<"request_headers", c.auth_token>> >>

\* dataclasses.asdict: the dataclass fields, in declaration order.
\* request_headers is set in __post_init__ and is no field.
asdict(c) == << <<"nickname", c.nickname>>, <<"auth_token", c.auth_token>> >>

\* Order of the keys under sort_keys=True.
KeyRank(k) == CASE k = "auth_token" -> 1
                [] k = "nickname" -> 2
                [] OTHER -> 3

RECURSIVE InsertByKey(_, _)
InsertByKey(sorted, p) ==
    IF sorted = <<>> THEN <<p>>
    ELSE IF KeyRank(p[1]) < KeyRank(Head(sorted)[1])
         THEN <<p>> \o sorted
         ELSE <<Head(sorted)>> \o InsertByKey(Tail(sorted), p)

RECURSIVE SortKeys(_)
SortKeys(pairs) ==
    IF pairs = <<>> THEN <<>>
    ELSE InsertByKey(SortKeys(SubSeq(pairs, 1, Len(pairs) - 1)), pairs[Len(pairs)])

\* json.dumps(d, sort_keys=True, indent=4)
json_dumps(pairs) == [json |-> TRUE, pairs |-> SortKeys(pairs)]

HasKey(pairs, k) == \E i \in 1..Len(pairs) : pairs[i][1] = k

\* The value of key k of a parsed object: the last member with that key.
Lookup(pairs, k) ==
    LET i == CHOOSE j \in 1..Len(pairs) :
                 /\ pairs[j][1] = k
                 /\ \A m \in (j + 1)..Len(pairs) : pairs[m][1] # k
    IN pairs[i][2]

\* Mutant: a field the object lacks is left empty instead of raising.
from_json_lenient(f) ==
    IF ~f.json THEN <<>>
    ELSE <<Credentials(IF HasKey(f.pairs, "nickname")
                       THEN f.pairs[CHOOSE j \in 1..Len(f.pairs) : f.pairs[j][1] = "nickname"][2]
                       ELSE "",
                       IF HasKey(f.pairs, "auth_token")
                       THEN f.pairs[CHOOSE j \in 1..Len(f.pairs) : f.pairs[j][1] = "auth_token"][2]
                       ELSE "")>>

\* Credentials.from_json followed by the isinstance assertion:
\* <<>> when an exception is raised, else <<Credentials>>.
from_json(f) ==
    IF ~f.json THEN <<>>
    ELSE IF ~(HasKey(f.pairs, "nickname") /\ HasKey(f.pairs, "auth_token")) THEN <<>>
    ELSE <<Credentials(Lookup(f.pairs, "nickname"), Lookup(f.pairs, "auth_token"))>>

\* Lines 60-67 of get_creds: <<>> when the sign-in path has to be taken.
load_cached(f) == IF f.exists THEN from_json(f) ELSE <<>>

\* Line 91: Credentials built from the sign-in response.
creds_from_response(r) == Credentials(r.ingame_name, r.authorization)

\* Line 92: the text written to the cache file.
cache_text(c) == json_dumps(asdict(c))

SignInResponses ==
    [status : SignInStatusCodes, ingame_name : Nicknames, authorization : Tokens]

\* Files the process may find at its first launch.
InitialFiles ==
    { NoFile,
      [exists |-> TRUE, json |-> FALSE, pairs |-> <<>>],
      [exists |-> TRUE, json |-> TRUE, pairs |-> << <<"nickname", "mallory">> >>],
      [exists |-> TRUE, json |-> TRUE,
       pairs |-> << <<"auth_token", "JWT t0">>, <<"nickname", "carol">> >>] }

-----------------------------------------------------------------------------
(* The marketplace server: the user's own orders.  An entry is the dict of  *)
(* the JSON payload; last_update is the ISO text, a wall-clock reading and  *)
(* its UTC offset.                                                          *)

ItemOf(id) == [id |-> id, item_name |-> "item", url_name |-> "item"]
PlatinumOf(id) == 10 + (id % 100)
QuantityOf(id) == 1 + (id % 2)

ServerOrder(id, type, visible) ==
    [id |-> id, order_type |-> type, item |-> ItemOf(id),
     platinum |-> PlatinumOf(id), quantity |-> QuantityOf(id),
     visible |-> visible, last_update |-> [clock |-> 0, offset |-> 0]]

\* The order lists the server may hold when the process is first launched.
InitialServers ==
    { [sell_orders |-> [i \in 1..ns |-> ServerOrder(i, "sell", vs[i])],
       buy_orders |-> [i \in 1..nb |-> ServerOrder(100 + i, "buy", vb[i])]] :
        ns \in 0..MaxSell, nb \in 0..MaxBuy,
        vs \in [1..MaxSell -> BOOLEAN], vb \in [1..MaxBuy -> BOOLEAN] }

NoPayload == [sell_orders |-> <<>>, buy_orders |-> <<>>]

\* GET /profile/{nickname}/orders: the payload of the response.
my_orders_payload(srv) ==
    [sell_orders |-> srv.sell_orders, buy_orders |-> srv.buy_orders]

\* PUT /profile/orders/{id}: the server stores the three fields of the body
\* and stamps the order with the time of the request.  The server's clock
\* is read in whole ticks and one tick elapses between two launches of the
\* process: Now(r) is its reading while process r runs.
Now(r) == r

put_entry(d, id, contents, now) ==
    IF d.id # id THEN d
    ELSE [d EXCEPT !.platinum = contents.platinum,
                   !.quantity = contents.quantity,
                   !.visible = contents.visible,
                   !.last_update = [clock |-> now, offset |-> 0]]

put_order(srv, id, contents, now) ==
    [sell_orders |-> [i \in 1..Len(srv.sell_orders) |->
                         put_entry(srv.sell_orders[i], id, contents, now)],
     buy_orders |-> [i \in 1..Len(srv.buy_orders) |->
                        put_entry(srv.buy_orders[i], id, contents, now)]]

-----------------------------------------------------------------------------
(* Marketplace client *)

\* dateutil parser.parse followed by the instant it denotes.
parse_datetime(text) == text.clock - text.offset

Item(id, name, url_name) == [id |-> id, name |-> name, url_name |-> url_name]

Order(id, type, item, quantity, price, creator, last_update) ==
    [id |-> id, type |-> type, item |-> item, quantity |-> quantity,
     price |-> price, creator |-> creator, last_update |-> last_update]

\* get_my_orders.order_from_dict
my_order_from_dict(c, d) ==
    Order(d.id, d.order_type,
          Item(d.item.id, d.item.item_name, d.item.url_name),
          d.quantity, d.platinum, c.nickname, parse_datetime(d.last_update))

\* [order_from_dict(o) for o in entries if o["visible"]]
RECURSIVE visible_orders(_, _)
visible_orders(c, entries) ==
    IF entries = <<>> THEN <<>>
    ELSE (IF Head(entries).visible THEN <<my_order_from_dict(c, Head(entries))>> ELSE <<>>)
         \o visible_orders(c, Tail(entries))

\* Mutant: the two lists concatenated the other way round.
get_my_orders_buy_first(c, p) == visible_orders(c, p.buy_orders \o p.sell_orders)

\* get_my_orders, after raise_for_status
get_my_orders(c, p) == visible_orders(c, p.sell_orders \o p.buy_orders)

\* Mutant: the two numbers of the body swapped.
update_contents_swapped(order) ==
    [platinum |-> order.quantity, quantity |-> order.price, visible |-> TRUE]

\* update_my_order: the body of the PUT
update_contents(order) ==
    [platinum |-> order.price, quantity |-> order.quantity, visible |-> TRUE]

\* get_orders_for_item.order_from_dict
item_order_from_dict(item, d) ==
    Order(d.id, d.order_type, item, d.quantity, d.platinum,
          d.user.ingame_name, parse_datetime(d.last_update))

\* Mutant: "or" in place of "and".
keep_entry_either(d) == d.platform = "pc" \/ d.user.status = "ingame"

\* Line 124: the filter on platform and user status.
keep_entry(d) == d.platform = "pc" /\ d.user.status = "ingame"

\* (order_from_dict(e) for e in orders if e["order_type"] == type), over the
\* filtered entries.
RECURSIVE orders_of_type(_, _, _)
orders_of_type(item, entries, type) ==
    IF entries = <<>> THEN <<>>
    ELSE (IF keep_entry(Head(entries)) /\ Head(entries).order_type = type
          THEN <<item_order_from_dict(item, Head(entries))>> ELSE <<>>)
         \o orders_of_type(item, Tail(entries), type)

\* Lines 126-127: the sort keys.
buy_key(o) == <<-o.price, -o.last_update>>

\* Mutant: the oldest first among equal prices.
sell_key_oldest_first(o) == <<o.price, o.last_update>>

sell_key(o) == <<o.price, -o.last_update>>

\* Comparison of two key tuples.
TupleLess(a, b) == a[1] < b[1] \/ (a[1] = b[1] /\ a[2] < b[2])

\* sorted() is stable: an element goes after the elements whose key is not
\* greater than its own.  Elements are <<key, order>>.
RECURSIVE InsertStable(_, _)
InsertStable(done, x) ==
    IF done = <<>> THEN <<x>>
    ELSE IF TupleLess(x[1], Head(done)[1])
         THEN <<x>> \o done
         ELSE <<Head(done)>> \o InsertStable(Tail(done), x)

RECURSIVE SortDecorated(_)
SortDecorated(keyed) ==
    IF keyed = <<>> THEN <<>>
    ELSE InsertStable(SortDecorated(SubSeq(keyed, 1, Len(keyed) - 1)), keyed[Len(keyed)])

Undecorate(keyed) == [i \in 1..Len(keyed) |-> keyed[i][2]]

sorted_buy(orders) ==
    Undecorate(SortDecorated([i \in 1..Len(orders) |-> <<buy_key(orders[i]), orders[i]>>]))

sorted_sell(orders) ==
    Undecorate(SortDecorated([i \in 1..Len(orders) |-> <<sell_key(orders[i]), orders[i]>>]))

\* get_orders_for_item, after raise_for_status
get_orders_for_item(item, entries) ==
    [buy |-> sorted_buy(orders_of_type(item, entries, "buy")),
     sell |-> sorted_sell(orders_of_type(item, entries, "sell"))]

-----------------------------------------------------------------------------
(* The process *)

\* A request with this status was sent.
Requested(request, status) ==
    /\ prev_request' = last_request
    /\ last_request' = request
    /\ last_status' = status
    /\ gap' = slept
    /\ slept' = 0
    /\ UNCHANGED server0

\* Mutant: the file is written before the status is looked at.
file_written_first(f, r) == FileWith(cache_text(creds_from_response(r)))

\* Lines 88-92: the cache file after the sign-in response r.
file_after_signin(f, r) ==
    IF raise_for_status(r.status) THEN f
    ELSE FileWith(cache_text(creds_from_response(r)))

\* Lines 60-65: the cache file parses, its Credentials are returned.
get_creds_cached ==
    /\ pc = "start"
    /\ load_cached(file) # <<>>
    /\ creds' = load_cached(file)
    /\ pc' = "list"
    /\ UNCHANGED <<file, file0, signins, resp, minted>>
    /\ UNCHANGED <<run, loopVars, histVars, itemVars>>

\* Lines 69-96: interactive sign-in.
get_creds_signin ==
    /\ pc = "start"
    /\ load_cached(file) = <<>>
    /\ \E r \in SignInResponses :
        /\ signins' = signins + 1
        /\ resp' = <<r>>
        /\ Requested("signin", r.status)
        /\ file' = file_after_signin(file, r)
        /\ IF raise_for_status(r.status)
           THEN /\ pc' = "aborted"
                /\ UNCHANGED <<creds, minted>>
           ELSE /\ creds' = <<creds_from_response(r)>>
                /\ minted' = <<creds_from_response(r)>>
                /\ pc' = "list"
    /\ UNCHANGED <<file0, run, loopVars, itemVars>>

\* Mutant: get_my_orders without raise_for_status.
after_list_unchecked(status) == "ok"

\* Mutant: main without the try/except.
after_update_uncaught(status) == IF raise_for_status(status) THEN "aborted" ELSE "sleep"

\* Line 108 in main's loop: nothing catches the HTTPError of get_my_orders.
after_list(status) == IF raise_for_status(status) THEN "aborted" ELSE "ok"

\* Lines 149-152: the try/except around update_my_order.
after_update(status) == "sleep"

\* Line 146: my_orders = get_my_orders(creds), and the start of the for loop.
list_my_orders ==
    /\ pc = "list"
    /\ passes < MaxPasses
    /\ \E status \in StatusCodes :
        /\ Requested("list", status)
        /\ passes' = passes + 1
        /\ IF after_list(status) = "aborted"
           THEN /\ pc' = "aborted"
                /\ UNCHANGED <<payload, my_orders, idx, attempts>>
           ELSE /\ payload' = my_orders_payload(server)
                /\ my_orders' = get_my_orders(creds[1], payload')
                /\ idx' = 1
                /\ attempts' = <<>>
                /\ pc' = IF my_orders' = <<>> THEN "list" ELSE "update"
    /\ UNCHANGED <<server, sent, run, credVars, itemVars>>

\* Lines 148-152: one update attempt.
update_order ==
    /\ pc = "update"
    /\ LET order == my_orders[idx]
           contents == update_contents(order)
       IN \E status \in StatusCodes :
            /\ Requested("update", status)
            /\ sent' = <<[id |-> order.id, contents |-> contents,
                          Authorization |-> request_headers(creds[1]).Authorization]>>
            /\ attempts' = Append(attempts, [id |-> order.id, status |-> status])
            /\ server' = IF raise_for_status(status) THEN server
                         ELSE put_order(server, order.id, contents, Now(run))
            /\ pc' = after_update(status)
    /\ UNCHANGED <<payload, my_orders, idx, passes, run, credVars, itemVars>>

\* Line 153: time.sleep(5), then the next order or the next pass.
sleep ==
    /\ pc = "sleep"
    /\ slept' = slept + SLEEP_SECONDS
    /\ idx' = idx + 1
    /\ pc' = IF idx' > Len(my_orders) THEN "list" ELSE "update"
    /\ UNCHANGED <<server0, last_request, prev_request, last_status, gap>>
    /\ UNCHANGED <<server, payload, my_orders, passes, attempts, sent>>
    /\ UNCHANGED <<run, credVars, itemVars>>

\* Lines 158-161: KeyboardInterrupt ends the loop.
interrupt ==
    /\ pc \in {"list", "update", "sleep"}
    /\ pc' = "interrupted"
    /\ UNCHANGED <<run, credVars, loopVars, histVars, itemVars>>

\* Lines 157-159: the script is launched again; the cache file and the
\* server keep their state.
launch ==
    /\ pc \in {"aborted", "interrupted"}
    /\ run < MaxRuns
    /\ run' = run + 1
    /\ pc' = "start"
    /\ file0' = file
    /\ creds' = <<>>
    /\ signins' = 0
    /\ resp' = <<>>
    /\ payload' = NoPayload
    /\ my_orders' = <<>>
    /\ idx' = 1
    /\ passes' = 0
    /\ attempts' = <<>>
    /\ sent' = <<>>
    /\ last_request' = "none"
    /\ prev_request' = "none"
    /\ last_status' = 0
    /\ slept' = 0
    /\ gap' = 0
    /\ UNCHANGED <<file, minted, server, server0, itemVars>>

Init ==
    /\ file \in InitialFiles
    /\ file0 = file
    /\ pc = "start"
    /\ run = 1
    /\ creds = <<>>
    /\ signins = 0
    /\ resp = <<>>
    /\ minted = <<>>
    /\ server \in InitialServers
    /\ payload = NoPayload
    /\ my_orders = <<>>
    /\ idx = 1
    /\ passes = 0
    /\ attempts = <<>>
    /\ sent = <<>>
    /\ server0 = server
    /\ last_request = "none"
    /\ prev_request = "none"
    /\ last_status = 0
    /\ slept = 0
    /\ gap = 0
    /\ item_orders = <<>>
    /\ item_result = <<>>

Next ==
    \/ get_creds_cached
    \/ get_creds_signin
    \/ list_my_orders
    \/ update_order
    \/ sleep
    \/ interrupt
    \/ launch

Spec == Init /\ [][Next]_vars

-----------------------------------------------------------------------------
(* The client operations on their own: a response is built entry by entry, *)
(* then the operation is applied to it.                                    *)

TheItem == Item("i1", "Item One", "item_one")
TheCreds == Credentials("alice", "JWT t1")

\* Readings of last_update: the first is the later instant and shows the
\* earlier wall clock.
Stamps == {[clock |-> 2, offset |-> 0], [clock |-> 3, offset |-> 2]}

ItemEntries(id) ==
    { [id |-> id, order_type |-> t, platform |-> ps[1],
       user |-> [ingame_name |-> "trader", status |-> ps[2]],
       platinum |-> p, quantity |-> 1, last_update |-> lu] :
        t \in {"buy", "sell"},
        ps \in {<<"pc", "ingame">>, <<"xbox", "ingame">>, <<"pc", "offline">>},
        p \in {20, 30},
        lu \in Stamps }

MyEntries(id, type) ==
    { [id |-> id, order_type |-> type, item |-> ItemOf(id),
       platinum |-> PlatinumOf(id), quantity |-> QuantityOf(id),
       visible |-> v, last_update |-> [clock |-> 2, offset |-> 0]] :
        v \in BOOLEAN }

\* What the two operations leave alone.
myIdle == <<run, credVars, histVars, itemVars, server, idx, passes, attempts, sent>>
itemIdle == <<run, credVars, histVars, loopVars>>

respond_sell_entry ==
    /\ pc = "my_orders"
    /\ Len(payload.sell_orders) < MaxListed
    /\ \E d \in MyEntries(Len(payload.sell_orders) + 1, "sell") :
        payload' = [payload EXCEPT !.sell_orders = Append(@, d)]
    /\ UNCHANGED <<pc, my_orders>>
    /\ UNCHANGED myIdle

respond_buy_entry ==
    /\ pc = "my_orders"
    /\ Len(payload.buy_orders) < MaxListed
    /\ \E d \in MyEntries(100 + Len(payload.buy_orders) + 1, "buy") :
        payload' = [payload EXCEPT !.buy_orders = Append(@, d)]
    /\ UNCHANGED <<pc, my_orders>>
    /\ UNCHANGED myIdle

call_get_my_orders ==
    /\ pc = "my_orders"
    /\ my_orders' = get_my_orders(creds[1], payload)
    /\ pc' = "my_orders_returned"
    /\ UNCHANGED payload
    /\ UNCHANGED myIdle

respond_item_entry ==
    /\ pc = "orders_for_item"
    /\ Len(item_orders) < MaxItemOrders
    /\ \E d \in ItemEntries(Len(item_orders) + 1) :
        item_orders' = Append(item_orders, d)
    /\ UNCHANGED <<pc, item_result>>
    /\ UNCHANGED itemIdle

call_get_orders_for_item ==
    /\ pc = "orders_for_item"
    /\ item_result' = <<get_orders_for_item(TheItem, item_orders)>>
    /\ pc' = "orders_for_item_returned"
    /\ UNCHANGED item_orders
    /\ UNCHANGED itemIdle

InitClient ==
    /\ pc \in {"my_orders", "orders_for_item"}
    /\ creds = <<TheCreds>>
    /\ file = NoFile
    /\ file0 = NoFile
    /\ run = 1
    /\ signins = 0
    /\ resp = <<>>
    /\ minted = <<>>
    /\ server = NoPayload
    /\ payload = NoPayload
    /\ my_orders = <<>>
    /\ idx = 1
    /\ passes = 0
    /\ attempts = <<>>
    /\ sent = <<>>
    /\ server0 = server
    /\ last_request = "none"
    /\ prev_request = "none"
    /\ last_status = 0
    /\ slept = 0
    /\ gap = 0
    /\ item_orders = <<>>
    /\ item_result = <<>>

NextClient ==
    \/ respond_sell_entry
    \/ respond_buy_entry
    \/ call_get_my_orders
    \/ respond_item_entry
    \/ call_get_orders_for_item

SpecClient == InitClient /\ [][NextClient]_vars

-----------------------------------------------------------------------------
(* Claims *)

Ids(seq) == [i \in 1..Len(seq) |-> seq[i].id]
IsHttpError(status) == status \in 400..599
Is2xx(status) == status \in 200..299
Entries(p) == p.sell_orders \o p.buy_orders
IsVisible(d) == d.visible

\* C1: get_my_orders returns the visible entries of sell_orders followed by
\* the visible entries of buy_orders, each once and in server order; no
\* invisible entry appears and no visible one is dropped or reordered.
C1_VisibleInServerOrder ==
    pc = "my_orders_returned" =>
        LET want == SelectSeq(Entries(payload), IsVisible)
        IN /\ Len(my_orders) = Len(want)
           /\ \A i \in 1..Len(want) :
                /\ my_orders[i].id = want[i].id
                /\ my_orders[i].type = want[i].order_type
                /\ my_orders[i].price = want[i].platinum
                /\ my_orders[i].quantity = want[i].quantity

C1_Witness ==
    /\ pc = "my_orders_returned"
    /\ Len(my_orders) = 3
    /\ my_orders[1].type = "sell" /\ my_orders[2].type = "sell"
    /\ my_orders[3].type = "buy"
    /\ \E i \in 1..Len(payload.buy_orders) : ~payload.buy_orders[i].visible

\* The instant the last_update text of response entry id denotes.
InstantOf(id) == item_orders[id].last_update.clock - item_orders[id].last_update.offset

\* C2: the buy list has price non-increasing, the sell list price
\* non-decreasing, and in both lists entries of equal price are ordered by
\* non-increasing last_update (most recent first).
C2_SortedByPriceThenRecency ==
    item_result # <<>> =>
        LET buy == item_result[1].buy
            sell == item_result[1].sell
        IN /\ \A i, j \in 1..Len(buy) : i < j =>
                /\ buy[i].price >= buy[j].price
                /\ buy[i].price = buy[j].price => InstantOf(buy[i].id) >= InstantOf(buy[j].id)
           /\ \A i, j \in 1..Len(sell) : i < j =>
                /\ sell[i].price <= sell[j].price
                /\ sell[i].price = sell[j].price => InstantOf(sell[i].id) >= InstantOf(sell[j].id)

C2_Witness ==
    /\ item_result # <<>>
    /\ Len(item_result[1].sell) = 3
    /\ item_result[1].sell[1].id = 3
    /\ item_result[1].sell[1].price = item_result[1].sell[2].price
    /\ InstantOf(item_result[1].sell[1].id) > InstantOf(item_result[1].sell[2].id)
    /\ item_result[1].sell[2].price < item_result[1].sell[3].price

\* Positions of the response entries with platform pc, user status ingame
\* and the given order_type.
Eligible(type) ==
    { i \in 1..Len(item_orders) :
        /\ item_orders[i].platform = "pc"
        /\ item_orders[i].user.status = "ingame"
        /\ item_orders[i].order_type = type }

\* C3: the buy and sell lists together hold exactly the response entries
\* with platform pc and user status ingame, each once, in the list of its
\* order_type; no entry of another platform or user status is in either.
C3_FilteredAndPartitioned ==
    item_result # <<>> =>
        LET buy == item_result[1].buy
            sell == item_result[1].sell
        IN /\ {buy[i].id : i \in 1..Len(buy)} = Eligible("buy")
           /\ Len(buy) = Cardinality(Eligible("buy"))
           /\ \A i \in 1..Len(buy) : buy[i].type = "buy"
           /\ {sell[i].id : i \in 1..Len(sell)} = Eligible("sell")
           /\ Len(sell) = Cardinality(Eligible("sell"))
           /\ \A i \in 1..Len(sell) : sell[i].type = "sell"

C3_Witness ==
    /\ item_result # <<>>
    /\ Len(item_orders) = 3
    /\ item_orders[1].platform = "xbox"
    /\ item_orders[2].user.status = "offline"
    /\ Len(item_result[1].buy) = 1
    /\ item_result[1].sell = <<>>

\* C4: within one pass every order of my_orders gets exactly one update
\* attempt, in list order, whichever attempts raise an HTTP error; a failed
\* update is caught, the loop goes on, and after the last order the next
\* pass starts instead of the process terminating.
C4_OneAttemptPerOrder ==
    /\ pc = "update" => Ids(attempts) = SubSeq(Ids(my_orders), 1, idx - 1)
    /\ pc = "sleep" => Ids(attempts) = SubSeq(Ids(my_orders), 1, idx)
    /\ (pc = "list" /\ passes > 0) => Ids(attempts) = Ids(my_orders)
    /\ pc = "interrupted" =>
         Ids(attempts) = SubSeq(Ids(my_orders), 1, Len(attempts))
    /\ (last_request = "update" /\ IsHttpError(last_status)) => pc # "aborted"
    /\ pc = "aborted" => last_request \in {"signin", "list"}
    /\ (slept > 0 /\ pc # "interrupted") =>
         pc = (IF idx > Len(my_orders) THEN "list" ELSE "update")

C4_Witness ==
    /\ pc = "list"
    /\ Len(my_orders) = 2
    /\ Len(attempts) = 2
    /\ IsHttpError(attempts[1].status)
    /\ ~IsHttpError(attempts[2].status)
    /\ slept = SLEEP_SECONDS

\* The cache file holds a JSON object with both fields of Credentials.
Parses(f) ==
    /\ f.exists
    /\ f.json
    /\ \E i \in 1..Len(f.pairs) : f.pairs[i][1] = "nickname"
    /\ \E i \in 1..Len(f.pairs) : f.pairs[i][1] = "auth_token"

\* C5: when the cache file is absent or does not parse, get_creds signs in
\* exactly once and the Credentials it returns come from the sign-in
\* response alone; when the file parses, it does not sign in.
C5_SignInOnlyWithoutCache ==
    pc # "start" =>
        IF Parses(file0)
        THEN signins = 0 /\ resp = <<>> /\ creds # <<>>
        ELSE /\ signins = 1
             /\ resp # <<>>
             /\ creds # <<>> =>
                  /\ creds[1].nickname = resp[1].ingame_name
                  /\ creds[1].auth_token = resp[1].authorization
             /\ creds = <<>> => pc = "aborted"

C5_Witness ==
    /\ pc = "list"
    /\ file0.exists /\ file0.json /\ ~Parses(file0)
    /\ signins = 1
    /\ creds = <<Credentials("bob", "JWT t2")>>

\* C6: the file written after a successful sign-in holds only the keys
\* nickname and auth_token, and a later get_creds that loads it returns the
\* same nickname and auth_token (so the same Authorization header) without
\* signing in again.
C6_CacheRoundTrip ==
    /\ minted # <<>> =>
         /\ file.exists /\ file.json
         /\ {file.pairs[i][1] : i \in 1..Len(file.pairs)} = {"nickname", "auth_token"}
         /\ Len(file.pairs) = 2
    /\ \A m \in [nickname : Nicknames, auth_token : Tokens] :
         (pc # "start" /\ file0 = FileWith(cache_text(m))) =>
            /\ signins = 0
            /\ creds = <<m>>
            /\ request_headers(creds[1]).Authorization = m.auth_token

C6_Witness ==
    /\ run = 2
    /\ pc = "update"
    /\ signins = 0
    /\ minted = <<Credentials("alice", "JWT t2")>>
    /\ creds = minted

C8_ListErrorIsFatal ==
    /\ (last_request = "list" /\ IsHttpError(last_status)) => pc = "aborted"
    /\ (last_request = "update" /\ IsHttpError(last_status)) =>
         pc \in {"sleep", "update", "list", "interrupted"}

C8_Witness ==
    /\ pc = "aborted"
    /\ last_request = "list"
    /\ IsHttpError(last_status)
    /\ passes = 2
    /\ Len(attempts) = 2

\* C9: the refresh loop changes no field of an order but its timestamp:
\* each update request carries the price and quantity of the snapshot
\* fetched at the start of the pass with visible = true, goes only to an
\* order visible in that snapshot, and after any number of passes every
\* order's price, quantity and visibility on the server are what they were.
C9_OnlyTimestampChanges ==
    /\ sent # <<>> =>
         \E i \in 1..Len(Entries(payload)) :
            LET d == Entries(payload)[i]
            IN /\ d.id = sent[1].id
               /\ d.visible
               /\ sent[1].contents.platinum = d.platinum
               /\ sent[1].contents.quantity = d.quantity
               /\ sent[1].contents.visible = TRUE
    /\ Len(Entries(server)) = Len(Entries(server0))
    /\ \A i \in 1..Len(Entries(server0)) :
         LET now == Entries(server)[i]
             was == Entries(server0)[i]
         IN /\ now.id = was.id
            /\ now.order_type = was.order_type
            /\ now.item = was.item
            /\ now.platinum = was.platinum
            /\ now.quantity = was.quantity
            /\ now.visible = was.visible

C9_Witness ==
    /\ run = 2
    /\ passes = 2
    /\ pc = "list"
    /\ Len(server.sell_orders) = 1
    /\ Len(server.buy_orders) = 1
    /\ server.sell_orders[1].last_update.clock = 2
    /\ server.buy_orders[1].last_update.clock = 0
    /\ ~server.buy_orders[1].visible

\* C10: the loop's request rate is bounded by its 5-second delay: every
\* update attempt is followed by a 5-second sleep before the next request,
\* and at least one 5-second sleep separates two consecutive get_my_orders
\* requests, whatever the 'my orders' responses are.
C10_SleepBetweenRequests ==
    /\ prev_request = "update" => gap >= SLEEP_SECONDS
    /\ (prev_request = "list" /\ last_request = "list") => gap >= SLEEP_SECONDS

====
